---- MODULE Spec2Model ----
(***************************************************************************)
(* A model of package xhttp (golocron/xhttp): a wrapper around             *)
(* net/http.Client.  Two builds of the package are in the repository: the  *)
(* current one (src/xhttp.go: Do/GET/POST naming) and an older one (second *)
(* part of src/Makefile: SendRaw/Get/Post naming).  The variable `variant` *)
(* says which build runs.  In the older build the shaped Get/Post and the  *)
(* raw SendRaw are the operations named GET/POST and Do here.              *)
(*                                                                         *)
(* Strings the code looks into (methods, URLs, query parameters, bodies)   *)
(* are sequences of one-character strings; header names and values, which  *)
(* the code only stores and compares, are atomic strings.                  *)
(* net/http, net/url, io/ioutil and the file system are the environment:   *)
(* their documented behaviour is modelled, their outcomes are chosen       *)
(* nondeterministically.                                                   *)
(***************************************************************************)
EXTENDS Integers, Sequences, FiniteSets, TLC

\* ------------------------------------------------------------------ bounds

\* Longest response body the server sends.
MaxBodyLen == 2

\* ------------------------------------------------------- program constants

DefaultClientTimeout == 30
DefaultDialTimeout == 10
DefaultKeepAlive == 30
DefaultIdleConnTimeout == 90
DefaultTLSHandshakeTimeout == 10
DefaultExpectContinueTimeout == 1
DefaultMaxIdleConns == 100

\* The status code DownloadFile accepts.
StatusOK == 200

\* ------------------------------------------------------------ text helpers

Str(s) == <<s>>

RECURSIVE Concat(_)
\* strings.Join(parts, ""), and bytes.Buffer writes one after another.
Concat(parts) ==
  IF parts = <<>> THEN <<>> ELSE Head(parts) \o Concat(Tail(parts))

\* Byte order of the characters the model uses (ASCII).
CharCode(ch) ==
  CASE ch = " " -> 32
    [] ch = "%" -> 37
    [] ch = "&" -> 38
    [] ch = "+" -> 43
    [] ch = "/" -> 47
    [] ch = "1" -> 49
    [] ch = "2" -> 50
    [] ch = "3" -> 51
    [] ch = "6" -> 54
    [] ch = ":" -> 58
    [] ch = "=" -> 61
    [] ch = "?" -> 63
    [] ch = "A" -> 65
    [] ch = "D" -> 68
    [] ch = "E" -> 69
    [] ch = "F" -> 70
    [] ch = "G" -> 71
    [] ch = "H" -> 72
    [] ch = "O" -> 79
    [] ch = "P" -> 80
    [] ch = "S" -> 83
    [] ch = "T" -> 84
    [] ch = "a" -> 97
    [] ch = "b" -> 98
    [] ch = "h" -> 104
    [] ch = "q" -> 113
    [] OTHER -> 0

RECURSIVE StrLess(_, _)
\* s < t as Go compares strings: byte-wise, a proper prefix first.
StrLess(s, t) ==
  IF t = <<>> THEN FALSE
  ELSE IF s = <<>> THEN TRUE
  ELSE IF CharCode(Head(s)) # CharCode(Head(t))
       THEN CharCode(Head(s)) < CharCode(Head(t))
  ELSE StrLess(Tail(s), Tail(t))

RECURSIVE SortStrings(_)
\* sort.Strings over a set of keys: the ascending sequence of its members.
SortStrings(S) ==
  IF S = {} THEN <<>>
  ELSE LET m == CHOOSE x \in S : \A y \in S \ {x} : StrLess(x, y)
       IN  <<m>> \o SortStrings(S \ {m})

IsHex(ch) ==
  ch \in {"0", "1", "2", "3", "4", "5", "6", "7", "8", "9",
          "a", "b", "c", "d", "e", "f", "A", "B", "C", "D", "E", "F"}

IsAlnum(ch) ==
  ch \in {"1", "2", "3", "6", "A", "D", "E", "F", "G", "H", "O", "P", "S", "T",
          "a", "b", "h", "q"}

\* net/url shouldEscape in encodeQueryComponent mode: letters, digits and
\* - _ . ~ stay, everything else is escaped.
ShouldEscape(ch) == ~(IsAlnum(ch) \/ ch \in {"-", "_", ".", "~"})

\* The two upper-case hex digits of a character's byte.
HexOf(ch) ==
  CASE ch = " " -> <<"2", "0">>
    [] ch = "%" -> <<"2", "5">>
    [] ch = "&" -> <<"2", "6">>
    [] ch = "+" -> <<"2", "B">>
    [] ch = "/" -> <<"2", "F">>
    [] ch = ":" -> <<"3", "A">>
    [] ch = "=" -> <<"3", "D">>
    [] ch = "?" -> <<"3", "F">>
    [] OTHER -> <<"0", "0">>

RECURSIVE QueryEscape(_)
\* url.QueryEscape: a space becomes "+", an escaped byte becomes %XX.
QueryEscape(s) ==
  IF s = <<>> THEN <<>>
  ELSE LET ch == Head(s)
           e  == IF ch = " " THEN <<"+">>
                 ELSE IF ShouldEscape(ch) THEN <<"%">> \o HexOf(ch)
                 ELSE <<ch>>
       IN  e \o QueryEscape(Tail(s))

\* ------------------------------------------------------ headers and values

\* A Go map that may be nil: [m |-> empty, nil |-> TRUE] is the nil map,
\* [m |-> f, nil |-> FALSE] a map holding the function f.  Records are
\* written throughout with their fields in the order TLC keeps them, so
\* that a value is in normal form from the moment it is built.
EmptyFn == [k \in {} |-> <<>>]
NilMap == [m |-> EmptyFn, nil |-> TRUE]
MakeMap == [m |-> EmptyFn, nil |-> FALSE]
MapOf(f) == [m |-> f, nil |-> FALSE]

\* len(m) of a Go map: the number of keys, 0 for nil.
MapLen(h) == Cardinality(DOMAIN h.m)

\* textproto.CanonicalMIMEHeaderKey on the header names of the model.
CanonicalMIMEHeaderKey(k) ==
  CASE k = "content-type" -> "Content-Type"
    [] k = "CONTENT-TYPE" -> "Content-Type"
    [] k = "authorization" -> "Authorization"
    [] OTHER -> k

\* http.Header.Set(key, value) on a non-nil map: the canonical key maps to
\* the one value.
HeaderSet(h, key, value) ==
  LET ck == CanonicalMIMEHeaderKey(key)
  IN  MapOf([k \in DOMAIN h.m \cup {ck} |->
               IF k = ck THEN <<value>> ELSE h.m[k]])

\* http.Header.Get(key): the first value under the canonical key, "" if none.
HeaderGet(h, key) ==
  LET ck == CanonicalMIMEHeaderKey(key)
  IN  IF ck \in DOMAIN h.m /\ Len(h.m[ck]) > 0 THEN h.m[ck][1] ELSE ""

RECURSIVE EncodeValues(_, _, _)
\* The inner loop of url.Values.Encode for one key: "&" between pairs,
\* escaped key, "=", escaped value.
EncodeValues(buf, keyEscaped, vs) ==
  IF vs = <<>> THEN buf
  ELSE EncodeValues(
         (IF Len(buf) > 0 THEN buf \o <<"&">> ELSE buf)
           \o keyEscaped \o <<"=">> \o QueryEscape(Head(vs)),
         keyEscaped, Tail(vs))

RECURSIVE EncodeKeys(_, _, _)
EncodeKeys(buf, keys, v) ==
  IF keys = <<>> THEN buf
  ELSE EncodeKeys(EncodeValues(buf, QueryEscape(Head(keys)), v[Head(keys)]),
                  Tail(keys), v)

\* url.Values.Encode: "URL encoded" form sorted by key; "" for nil.
Encode(p) == EncodeKeys(<<>>, SortStrings(DOMAIN p.m), p.m)

\* ------------------------------------------------------------------ errors

NoError == [kind |-> "none", msg |-> <<>>]
Err(kind, msg) == [kind |-> kind, msg |-> msg]

\* ---------------------------------------------------------------- Request

\* The slot of a *Request that holds none.
NoRequest ==
  [present |-> FALSE, Method |-> <<>>, BaseURL |-> <<>>, Body |-> <<>>,
   Header |-> NilMap, Param |-> NilMap]

\* A Request value (a struct literal).
RequestLit(m, u, b, h, p) ==
  [present |-> TRUE, Method |-> m, BaseURL |-> u, Body |-> b,
   Header |-> h, Param |-> p]

\* A NewRequest that leaves out the two make() calls.
NewRequestNoMaps(m, u, b) == RequestLit(m, u, b, NilMap, NilMap)

\* NewRequest returns a Request ready for use.
NewRequest(m, u, b) == RequestLit(m, u, b, MakeMap, MakeMap)

\* Request.SetContentTypeJSON
SetContentTypeJSON(r) ==
  LET h == IF r.Header.nil THEN MakeMap ELSE r.Header
  IN  [r EXCEPT !.Header = HeaderSet(h, "Content-Type", "application/json")]

\* Request.SetContentType
SetContentType(r, value) ==
  LET h == IF r.Header.nil THEN MakeMap ELSE r.Header
  IN  [r EXCEPT !.Header = HeaderSet(h, "Content-Type", value)]

\* A SetAuthorization copied from SetContentType with the header name left.
SetAuthorizationWrongName(r, value) ==
  LET h == IF r.Header.nil THEN MakeMap ELSE r.Header
  IN  [r EXCEPT !.Header = HeaderSet(h, "Content-Type", value)]

\* Request.SetAuthorization
SetAuthorization(r, value) ==
  LET h == IF r.Header.nil THEN MakeMap ELSE r.Header
  IN  [r EXCEPT !.Header = HeaderSet(h, "Authorization", value)]

\* ----------------------------------------------------- protocol request

MethodGet == <<"G", "E", "T">>
MethodPost == <<"P", "O", "S", "T">>

NoHTTPRequest ==
  [present |-> FALSE, Method |-> <<>>, Body |-> <<>>, Header |-> NilMap,
   URL |-> <<>>]

\* net/http validMethod: a non-empty token; of the model's characters only
\* letters and digits are token characters.
ValidMethod(m) == Len(m) > 0 /\ \A i \in 1..Len(m) : IsAlnum(m[i])

\* The path part of a URL string: what precedes the first "?".
PathOf(u) ==
  IF \E i \in 1..Len(u) : u[i] = "?"
  THEN SubSeq(u, 1, (CHOOSE i \in 1..Len(u) :
                       u[i] = "?" /\ \A j \in 1..(i - 1) : u[j] # "?") - 1)
  ELSE u

\* url.Parse succeeds unless the path holds a "%" that two hex digits do not
\* follow (the query string is kept raw and never validated).
URLParseOK(u) ==
  LET p == PathOf(u)
  IN  \A i \in 1..Len(p) :
        p[i] = "%" => (i + 2 <= Len(p) /\ IsHex(p[i + 1]) /\ IsHex(p[i + 2]))

\* http.NewRequest(method, url, body): "" means GET; an invalid method or an
\* unparsable URL is an error; the new request has an empty, non-nil Header.
HTTPNewRequest(method, url, body) ==
  LET m == IF method = <<>> THEN MethodGet ELSE method
  IN  IF ~ValidMethod(m)
      THEN [r |-> NoHTTPRequest, err |-> Err("build", <<"invalid method">>)]
      ELSE IF ~URLParseOK(url)
      THEN [r |-> NoHTTPRequest, err |-> Err("build", <<"parse url">>)]
      ELSE [r |-> [present |-> TRUE, Method |-> m, Body |-> body,
                   Header |-> MakeMap, URL |-> url],
            err |-> NoError]

\* A buildRequest that joins with "&" when the base URL has a "?" already.
buildRequestMergesQuery(req) ==
  LET sep == IF \E i \in 1..Len(req.BaseURL) : req.BaseURL[i] = "?"
             THEN <<"&">> ELSE <<"?">>
      url == IF MapLen(req.Param) # 0
             THEN Concat(<<req.BaseURL, sep, Encode(req.Param)>>)
             ELSE req.BaseURL
      got == HTTPNewRequest(req.Method, url, req.Body)
  IN  IF got.err # NoError
      THEN [r |-> NoHTTPRequest, err |-> got.err]
      ELSE IF MapLen(req.Header) # 0
      THEN [r |-> [got.r EXCEPT !.Header = req.Header], err |-> NoError]
      ELSE [r |-> got.r, err |-> NoError]

\* A buildRequest that leaves the Request's headers behind.
buildRequestDropsHeader(req) ==
  LET url == IF MapLen(req.Param) # 0
             THEN Concat(<<req.BaseURL, <<"?">>, Encode(req.Param)>>)
             ELSE req.BaseURL
      got == HTTPNewRequest(req.Method, url, req.Body)
  IN  IF got.err # NoError
      THEN [r |-> NoHTTPRequest, err |-> got.err]
      ELSE [r |-> got.r, err |-> NoError]

\* Client.buildRequest: the URL is BaseURL, or BaseURL "?" Param.Encode()
\* when Param has keys; a Header with keys replaces the new request's own.
buildRequest(req) ==
  LET url == IF MapLen(req.Param) # 0
             THEN Concat(<<req.BaseURL, <<"?">>, Encode(req.Param)>>)
             ELSE req.BaseURL
      got == HTTPNewRequest(req.Method, url, req.Body)
  IN  IF got.err # NoError
      THEN [r |-> NoHTTPRequest, err |-> got.err]
      ELSE IF MapLen(req.Header) # 0
      THEN [r |-> [got.r EXCEPT !.Header = req.Header], err |-> NoError]
      ELSE [r |-> got.r, err |-> NoError]

\* ------------------------------------------------------ client and config

ClientConfig(t, d, k, i, h, e, n, skip, ca) ==
  [Timeout |-> t, DialTimeout |-> d, KeepAlive |-> k, IdleConnTimeout |-> i,
   TLSHanshakeTimeout |-> h, ExpectContinueTimeout |-> e, MaxIdleConns |-> n,
   SkipTLSVerify |-> skip, IncludeRootCA |-> ca]

\* DefaultClientConfig (durations in seconds).
DefaultClientConfig ==
  ClientConfig(DefaultClientTimeout, DefaultDialTimeout, DefaultKeepAlive,
               DefaultIdleConnTimeout, DefaultTLSHandshakeTimeout,
               DefaultExpectContinueTimeout, DefaultMaxIdleConns, FALSE, FALSE)

\* A createClient that falls back to the default timeout when the
\* configured one is not positive.
createClientDefaultsTimeout(cfg) ==
  [HTTPClient |->
     [Timeout |-> IF cfg.Timeout <= 0 THEN DefaultClientTimeout
                  ELSE cfg.Timeout,
      Transport |->
        [DialTimeout |-> cfg.DialTimeout,
         KeepAlive |-> cfg.KeepAlive,
         IdleConnTimeout |-> cfg.IdleConnTimeout,
         ExpectContinueTimeout |-> cfg.ExpectContinueTimeout,
         MaxIdleConns |-> cfg.MaxIdleConns,
         TLSHandshakeTimeout |-> cfg.TLSHanshakeTimeout,
         TLSClientConfig |-> [InsecureSkipVerify |-> cfg.SkipTLSVerify]]]]

\* createClient: the tls.Config, the http.Transport and the http.Client.
createClient(cfg) ==
  [HTTPClient |->
     [Timeout |-> cfg.Timeout,
      Transport |->
        [DialTimeout |-> cfg.DialTimeout,
         KeepAlive |-> cfg.KeepAlive,
         IdleConnTimeout |-> cfg.IdleConnTimeout,
         ExpectContinueTimeout |-> cfg.ExpectContinueTimeout,
         MaxIdleConns |-> cfg.MaxIdleConns,
         TLSHandshakeTimeout |-> cfg.TLSHanshakeTimeout,
         TLSClientConfig |-> [InsecureSkipVerify |-> cfg.SkipTLSVerify]]]]

\* A NewClient that spells out its own settings, with no overall timeout.
NewClientOwnSettings ==
  createClient([DefaultClientConfig EXCEPT !.Timeout = 0])

NewClient == createClient(DefaultClientConfig)

NewClientWithConfig(cfg) == createClient(cfg)

\* The slot of a *ClientConfig that holds none.
NoClientConfig == [v |-> DefaultClientConfig, present |-> FALSE]
ConfigAt(cfg) == [v |-> cfg, present |-> TRUE]

\* The slot of a *Client that holds none.
NoClient == [present |-> FALSE, c |-> NewClient]
ClientAt(c) == [present |-> TRUE, c |-> c]

\* ------------------------------------------------- responses and streams

NoResponse ==
  [present |-> FALSE, Body |-> <<>>, StatusCode |-> 0, Status |-> "",
   Headers |-> NilMap]

\* An http.Response without its Body, which is the stream below.
NoHTTPResponse ==
  [present |-> FALSE, Header |-> NilMap, StatusCode |-> 0, Status |-> ""]

\* The body stream of a protocol response: the bytes the server sends, how
\* many have been read, how the read ended ("no" while it has not), whether
\* net/http closed it before handing it over, how often the wrapper called
\* Close, and whether a Read was issued after a Close.
NoStream ==
  [exists |-> FALSE, data |-> <<>>, pos |-> 0, ended |-> "no",
   libClosed |-> FALSE, closes |-> 0, readAfterClose |-> FALSE]

NewStream(data, libClosed) ==
  [exists |-> TRUE, data |-> data, pos |-> 0, ended |-> "no",
   libClosed |-> libClosed, closes |-> 0, readAfterClose |-> FALSE]

StreamClosed(s) == s.libClosed \/ s.closes > 0

\* Body.Close()
StreamClose(s) == [s EXCEPT !.closes = @ + 1]

\* ioutil.ReadAll(Body) that reads n bytes and ends with `how`.
StreamReadAll(s, n, how) ==
  [s EXCEPT !.pos = n, !.ended = how,
            !.readAfterClose = @ \/ s.closes > 0]

\* The status line text of a code.
StatusText(code) ==
  CASE code = 200 -> "200 OK"
    [] code = 201 -> "201 Created"
    [] code = 204 -> "204 No Content"
    [] code = 206 -> "206 Partial Content"
    [] code = 302 -> "302 Found"
    [] code = 400 -> "400 Bad Request"
    [] code = 500 -> "500 Internal Server Error"
    [] OTHER -> "000"

\* ------------------------------------------------------------ input sets

Variants == {"current", "old"}
Callers == {"u1", "u2"}
\* The callers that run in the sequential specification.
Serial == {"u1"}

Bytes == {"a"}
Bodies == UNION {[1..n -> Bytes] : n \in 0..MaxBodyLen}

Methods == {MethodGet, <<>>, <<"G", " ", "T">>}
BaseURLs == {<<"h">>, <<"h", "?", "q">>, <<"h", "%">>}
ReqBodies == {<<>>, <<"a">>}
\* The (method, URL, body) a caller gives NewRequest: every URL, every
\* method, every body, and a method and a URL that are both malformed.
NewRequestArgs ==
  {<<MethodGet, u, <<>>>> : u \in BaseURLs}
  \cup {<<m, <<"h">>, <<>>>> : m \in Methods}
  \cup {<<MethodGet, <<"h">>, b>> : b \in ReqBodies}
  \cup {<<<<"G", " ", "T">>, <<"h", "%">>, <<"a">>>>}
ContentTypes == {"text/plain"}
AuthValues == {"tok"}

ParamAB == MapOf([k \in {<<"a">>, <<"b">>} |->
                    IF k = <<"a">> THEN <<Str("1")>> ELSE <<Str("2")>>])
ParamMulti == MapOf([k \in {<<"b">>, <<"a", " ">>} |->
                       IF k = <<"b">> THEN <<<<"2">>, <<"&", "1">>>>
                       ELSE <<Str("3")>>])
ParamNoValues == MapOf([k \in {<<"a">>} |-> <<>>])
Params == {NilMap, MakeMap, ParamAB, ParamMulti, ParamNoValues}

HeaderTwo == MapOf([k \in {"Content-Type"} |-> <<"x", "y">>])
HeaderLower == MapOf([k \in {"content-type"} |-> <<"x">>])
\* Requests built as struct literals, without NewRequest.
DirectRequests ==
  {RequestLit(MethodGet, <<"h">>, <<>>, h, NilMap) :
     h \in {NilMap, HeaderTwo, HeaderLower}}

\* Protocol requests a caller of Do builds itself.
HTTPRequests ==
  {HTTPNewRequest(MethodGet, <<"h">>, <<>>).r,
   HTTPNewRequest(MethodPost, <<"h">>, <<"a">>).r}

StatusCodes == {200, 201, 204, 206, 302, 400, 500}
RespHeaders == {MakeMap, MapOf([k \in {"Content-Type"} |-> <<"text/plain">>])}

\* A configuration that differs from the default in every field; nothing
\* validates it, so it holds a zero and a negative duration.
CustomConfig ==
  ClientConfig(1, 2, 0, 0 - 4, 5, 6, 7, TRUE, TRUE)
Configs == {DefaultClientConfig, CustomConfig}

\* The configurations of the specification of the constructors: the two
\* above, the default one with one number changed to a negative value, to
\* zero or to another value, and both with every choice of the two flags.
ConfigNumbers ==
  {"Timeout", "DialTimeout", "KeepAlive", "IdleConnTimeout",
   "TLSHanshakeTimeout", "ExpectContinueTimeout", "MaxIdleConns"}
ConfigValues == {0 - 1, 0, 7}
ClientConfigs ==
  Configs
  \cup {[DefaultClientConfig EXCEPT ![f] = v] :
          f \in ConfigNumbers, v \in ConfigValues}
  \cup {[cfg EXCEPT !.SkipTLSVerify = skip, !.IncludeRootCA = ca] :
          cfg \in Configs, skip \in BOOLEAN, ca \in BOOLEAN}

Paths == {"p"}
NoFile == [exists |-> FALSE, data |-> <<>>, mode |-> ""]
File(data, mode) == [exists |-> TRUE, data |-> data, mode |-> mode]
OldFile == File(<<"o", "l", "d">>, "0644")

\* A WriteFile that opens with O_APPEND instead of O_TRUNC.
WriteFileAppend(files, filename, data, perm, how, n) ==
  LET mode == IF files[filename].exists THEN files[filename].mode ELSE perm
      old  == files[filename].data
  IN  IF how = "open" THEN files
      ELSE IF how = "short"
      THEN [files EXCEPT ![filename] = File(old \o SubSeq(data, 1, n), mode)]
      ELSE [files EXCEPT ![filename] = File(old \o data, mode)]

\* ioutil.WriteFile(filename, data, perm): O_WRONLY|O_CREATE|O_TRUNC.  `how`
\* is "ok", "open" (the open fails: nothing changes) or "short" (the write
\* fails after the truncation, n bytes written).
WriteFile(files, filename, data, perm, how, n) ==
  LET mode == IF files[filename].exists THEN files[filename].mode ELSE perm
  IN  IF how = "open" THEN files
      ELSE IF how = "short"
      THEN [files EXCEPT ![filename] = File(SubSeq(data, 1, n), mode)]
      ELSE [files EXCEPT ![filename] = File(data, mode)]

WriteError(how) ==
  IF how = "ok" THEN NoError ELSE Err("fs", <<how>>)

\* ------------------------------------------------------------------ state

VARIABLES
  variant,        \* which build of the package runs
  phase,          \* "load" before the package's variables are initialised
  DefaultClient,  \* the package variable: a slot holding a client id
  clients,        \* client id -> slot of the Client value allocated there
  fs,             \* path -> file
  call            \* caller -> its call in progress (locals and position)

vars == <<variant, phase, DefaultClient, clients, fs, call>>

ClientIds == {"c0", "c1"}
NoClientId == [present |-> FALSE, id |-> "c0"]
ClientId(id) == [present |-> TRUE, id |-> id]

\* A caller between calls: it may hold a Request it is preparing and a
\* ClientConfig it has filled in.  Of a
\* call, `found` is the destination file as DownloadFile's write found it
\* and `wrote` how that write ended ("" while there was none).
IdleCall(req) ==
  [url |-> <<>>, body |-> <<>>, err |-> NoError,
   req |-> req,
   cfg |-> NoClientConfig,
   data |-> NilMap, filename |-> "",
   pc |-> "idle", op |-> "", via |-> "", cl |-> NoClientId, ctype |-> "",
   httpReq |-> NoHTTPRequest,
   invoked |-> "", dispatches |-> 0,
   resp |-> NoHTTPResponse, stream |-> NoStream, deferred |-> FALSE,
   found |-> NoFile, wrote |-> "",
   result |-> NoResponse]

Init ==
  /\ variant \in Variants
  /\ phase = "load"
  /\ DefaultClient = NoClientId
  /\ clients = [id \in ClientIds |-> NoClient]
  /\ fs \in [Paths -> {NoFile, OldFile}]
  /\ call = [c \in Callers |-> IdleCall(NoRequest)]

\* A package initialisation that builds DefaultClient from another
\* configuration than the default one.
PackageInitOtherConfig ==
  /\ phase = "load"
  /\ phase' = "run"
  /\ clients' = [clients EXCEPT !["c0"] =
                   ClientAt(NewClientWithConfig(CustomConfig))]
  /\ DefaultClient' = ClientId("c0")
  /\ UNCHANGED <<variant, fs, call>>

\* var DefaultClient *Client = NewClient(): runs when the package is loaded,
\* before any function of the program.
PackageInit ==
  /\ phase = "load"
  /\ phase' = "run"
  /\ clients' = [clients EXCEPT !["c0"] = ClientAt(NewClient)]
  /\ DefaultClient' = ClientId("c0")
  /\ UNCHANGED <<variant, fs, call>>

Idle(c) == phase = "run" /\ call[c].pc = "idle"

\* ------------------------------------------- clients and requests by callers

\* c := NewClient()
CallNewClient(c) ==
  /\ Idle(c)
  /\ clients' = [clients EXCEPT !["c1"] = ClientAt(NewClient)]
  /\ UNCHANGED <<variant, phase, DefaultClient, fs, call>>

\* c := NewClientWithConfig(cfg)
CallNewClientWithConfig(c, cfg) ==
  /\ Idle(c)
  /\ clients' = [clients EXCEPT !["c1"] = ClientAt(NewClientWithConfig(cfg))]
  /\ UNCHANGED <<variant, phase, DefaultClient, fs, call>>

SetReq(c, r) ==
  /\ call' = [call EXCEPT ![c].req = r]
  /\ UNCHANGED <<variant, phase, DefaultClient, clients, fs>>

\* req := NewRequest(m, u, b)
CallNewRequest(c, m, u, b) ==
  /\ Idle(c)
  /\ SetReq(c, NewRequest(m, u, b))

\* req := &Request{...}
CallRequestLit(c, r) ==
  /\ Idle(c)
  /\ SetReq(c, r)

\* req.Param = p
CallSetParam(c, p) ==
  /\ Idle(c)
  /\ call[c].req.present
  /\ SetReq(c, [call[c].req EXCEPT !.Param = p])

CallSetContentTypeJSON(c) ==
  /\ Idle(c)
  /\ call[c].req.present
  /\ SetReq(c, SetContentTypeJSON(call[c].req))

CallSetContentType(c, v) ==
  /\ Idle(c)
  /\ call[c].req.present
  /\ SetReq(c, SetContentType(call[c].req, v))

CallSetAuthorization(c, v) ==
  /\ Idle(c)
  /\ call[c].req.present
  /\ SetReq(c, SetAuthorization(call[c].req, v))

\* ------------------------------------------------------ the steps of a call

\* The operations that return a shaped Response (or, DownloadFile, use one).
ShapedOps == {"Send", "GET", "POST", "DownloadFile"}
\* The operations that hand over to http.Client and return what it returns.
RawOps == {"Do", "Get", "Head", "Post", "PostForm", "CloseIdleConnections"}

\* Where a call goes when its Send has returned: GET, POST and Send return
\* what Send returned; DownloadFile goes on with it.
AfterSend(k) == IF k.op = "DownloadFile" THEN "dl" ELSE "done"

\* A Send that goes on with the request after buildRequest failed.
BuildStepIgnoresError(k) ==
  [k EXCEPT !.httpReq = buildRequest(k.req).r, !.pc = "do"]

\* Send, first part: req, err := c.buildRequest(request); an error is
\* returned at once.
BuildStep(k) ==
  LET b == buildRequest(k.req)
  IN  IF b.err # NoError
      THEN [k EXCEPT !.err = b.err, !.result = NoResponse, !.pc = AfterSend(k)]
      ELSE [k EXCEPT !.httpReq = b.r, !.pc = "do"]

MethodHead == <<"H", "E", "A", "D">>

\* What http.Client's Get, Head, Post and PostForm build before they
\* dispatch; Do dispatches the request it is given.
LibRequest(k) ==
  LET post(ct, b) ==
        LET g == HTTPNewRequest(MethodPost, k.url, b)
        IN  IF g.err # NoError THEN g
            ELSE [g EXCEPT !.r.Header = HeaderSet(g.r.Header, "Content-Type", ct)]
  IN  CASE k.op = "Get" -> HTTPNewRequest(MethodGet, k.url, <<>>)
        [] k.op = "Head" -> HTTPNewRequest(MethodHead, k.url, <<>>)
        [] k.op = "Post" -> post(k.ctype, k.body)
        [] k.op = "PostForm" ->
             post("application/x-www-form-urlencoded", Encode(k.data))
        [] OTHER -> [r |-> k.httpReq, err |-> NoError]

\* The method of http.Client a call ends in: Send goes through Client.Do.
Underlying(op) == IF op \in ShapedOps THEN "Do" ELSE op

\* The call into http.Client: c.HTTPClient.Do(req) and its siblings.  The
\* request goes out unless the library fails to build it.
DoSendStep(k) ==
  LET lib == LibRequest(k)
  IN  IF k.op = "CloseIdleConnections"
      THEN [k EXCEPT !.invoked = Underlying(k.op), !.pc = "done"]
      ELSE IF lib.err # NoError
      THEN [k EXCEPT !.invoked = Underlying(k.op), !.err = lib.err,
                     !.pc = "done"]
      ELSE [k EXCEPT !.invoked = Underlying(k.op), !.httpReq = lib.r,
                     !.dispatches = @ + 1, !.pc = "wire"]

\* What http.Client returns: a response, an error, or (a failed redirect
\* policy) a response whose body it has closed together with an error.
DispatchOutcomes ==
  {[kind |-> "resp", data |-> d, code |-> code, header |-> h] :
     code \in StatusCodes, d \in Bodies, h \in RespHeaders}
  \cup {[kind |-> "err", data |-> <<>>, code |-> 0, header |-> NilMap]}
  \cup {[kind |-> "both", data |-> <<>>, code |-> 302, header |-> MakeMap]}

OutcomeResponse(out) ==
  IF out.kind = "err" THEN NoHTTPResponse
  ELSE [present |-> TRUE, Header |-> out.header,
        StatusCode |-> out.code, Status |-> StatusText(out.code)]

OutcomeStream(out) ==
  IF out.kind = "err" THEN NoStream
  ELSE NewStream(out.data, out.kind = "both")

OutcomeError(out) ==
  CASE out.kind = "resp" -> NoError
    [] out.kind = "err" -> Err("transport", <<"dial">>)
    [] OTHER -> Err("transport", <<"redirect">>)

\* A Send that defers no Close at all.
SendDefersNothing(v, resp) == FALSE

\* Send of the current build: if resp != nil { defer resp.Body.Close() }.
\* The older build's Send defers nothing.
SendDefersClose(v, resp) == v = "current" /\ resp.present

\* A Do that drains and closes the body of the response it returns.
DoReturnStepClosesRaw(v, k, out) ==
  LET resp == OutcomeResponse(out)
      err  == OutcomeError(out)
      got  == [k EXCEPT !.req = NoRequest, !.httpReq = NoHTTPRequest,
                        !.url = <<>>, !.ctype = "", !.body = <<>>,
                        !.data = NilMap, !.cl = NoClientId, !.via = "",
                        !.invoked = "",
                        !.resp = resp, !.stream = OutcomeStream(out),
                        !.err = err]
  IN  IF k.op \in RawOps
      THEN IF resp.present
           THEN [got EXCEPT !.stream =
                              StreamClose(StreamReadAll(@, Len(@.data), "eof")),
                            !.pc = "done"]
           ELSE [got EXCEPT !.pc = "done"]
      ELSE LET d == SendDefersClose(v, resp)
           IN  IF err # NoError
               THEN [got EXCEPT !.deferred = d, !.result = NoResponse,
                                !.pc = IF d THEN "defer" ELSE AfterSend(k)]
               ELSE [got EXCEPT !.deferred = d, !.pc = "read"]

\* Send, second part: resp, err := c.Do(req), the deferred Close, and the
\* return on an error.  A raw operation returns resp and err as they are.
DoReturnStep(v, k, out) ==
  LET resp == OutcomeResponse(out)
      err  == OutcomeError(out)
      \* The locals the code reads no more are dropped.
      got  == [k EXCEPT !.req = NoRequest, !.httpReq = NoHTTPRequest,
                        !.url = <<>>, !.ctype = "", !.body = <<>>,
                        !.data = NilMap, !.cl = NoClientId, !.via = "",
                        !.invoked = "",
                        !.resp = resp, !.stream = OutcomeStream(out),
                        !.err = err]
  IN  IF k.op \in RawOps THEN [got EXCEPT !.pc = "done"]
      ELSE LET d == SendDefersClose(v, resp)
           IN  IF err # NoError
               THEN [got EXCEPT !.deferred = d, !.result = NoResponse,
                                !.pc = IF d THEN "defer" ELSE AfterSend(k)]
               ELSE [got EXCEPT !.deferred = d, !.pc = "read"]

\* An older buildResponse with its defer moved above the read.
BuildResponseDefersCloseFirst(v, readOK) == v = "old"

\* buildResponse of the older build: defer res.Body.Close() after a read
\* that succeeded.  The current build's buildResponse closes nothing.
BuildResponseDefersClose(v, readOK) == v = "old" /\ readOK

\* A buildResponse that makes an error of a status code of 400 and above.
buildResponseChecksStatus(resp, body, readErr) ==
  IF readErr # NoError \/ resp.StatusCode >= 400
  THEN [err |-> Err("status", <<resp.Status>>), response |-> NoResponse]
  ELSE [err |-> NoError,
        response |-> [present |-> TRUE, Body |-> body,
                      StatusCode |-> resp.StatusCode, Status |-> resp.Status,
                      Headers |-> resp.Header]]

\* A buildResponse that returns what it read together with the read error.
buildResponsePartial(resp, body, readErr) ==
  [err |-> readErr,
   response |-> [present |-> TRUE, Body |-> body,
                 StatusCode |-> resp.StatusCode, Status |-> resp.Status,
                 Headers |-> resp.Header]]

\* buildResponse: the Response made of the protocol response and the bytes
\* read, or the read error and no Response.
buildResponse(resp, body, readErr) ==
  IF readErr # NoError
  THEN [err |-> readErr, response |-> NoResponse]
  ELSE [err |-> NoError,
        response |-> [present |-> TRUE, Body |-> body,
                      StatusCode |-> resp.StatusCode, Status |-> resp.Status,
                      Headers |-> resp.Header]]

\* Send, last part: return c.buildResponse(resp).  ioutil.ReadAll reads n
\* bytes and ends well (ok, at the end of the data) or with an error.
ReadStep(v, k, ok, n) ==
  LET st  == StreamReadAll(k.stream, n, IF ok THEN "eof" ELSE "err")
      b   == buildResponse(k.resp, SubSeq(k.stream.data, 1, n),
                           IF ok THEN NoError ELSE Err("read", <<"read">>))
      d   == k.deferred \/ BuildResponseDefersClose(v, ok)
  IN  [k EXCEPT !.stream = st, !.result = b.response, !.err = b.err,
                !.deferred = d,
                !.pc = IF d THEN "defer" ELSE AfterSend(k)]

\* A return that runs two deferred Closes, Send's and buildResponse's.
DeferStepClosesTwice(k) ==
  [k EXCEPT !.stream = StreamClose(StreamClose(k.stream)),
            !.deferred = FALSE, !.pc = AfterSend(k)]

\* The deferred resp.Body.Close() runs as the function returns.
DeferStep(k) ==
  [k EXCEPT !.stream = StreamClose(k.stream), !.deferred = FALSE,
            !.pc = AfterSend(k)]

\* The error DownloadFile makes of a status that is not 200.
StatusError(v, status) ==
  IF v = "current" THEN Err("status", <<"download failed: ", status>>)
  ELSE Err("status", <<status>>)

\* A DownloadFile that takes every status below 300 for a success.
DownloadStepAccepts2xx(v, k, files, how, n) ==
  IF k.err # NoError
  THEN [k |-> [k EXCEPT !.pc = "done"], fs |-> files]
  ELSE IF k.result.StatusCode >= 300
  THEN [k |-> [k EXCEPT !.err = StatusError(v, k.result.Status),
                        !.pc = "done"],
        fs |-> files]
  ELSE [k |-> [k EXCEPT !.err = WriteError(how), !.pc = "done",
                        !.found = files[k.filename], !.wrote = how],
        fs |-> WriteFile(files, k.filename, k.result.Body, "0644", how, n)]

\* A DownloadFile that tries its GET once more after a status that is not
\* 200.
DownloadStepRetries(v, k, files, how, n) ==
  IF k.err # NoError
  THEN [k |-> [k EXCEPT !.pc = "done"], fs |-> files]
  ELSE IF k.result.StatusCode # StatusOK
  THEN IF k.dispatches < 2
       THEN [k |-> [k EXCEPT !.dispatches = @ + 1, !.result = NoResponse,
                             !.resp = NoHTTPResponse, !.stream = NoStream,
                             !.pc = "wire"],
             fs |-> files]
       ELSE [k |-> [k EXCEPT !.err = StatusError(v, k.result.Status),
                             !.pc = "done"],
             fs |-> files]
  ELSE [k |-> [k EXCEPT !.err = WriteError(how), !.pc = "done",
                        !.found = files[k.filename], !.wrote = how],
        fs |-> WriteFile(files, k.filename, k.result.Body, "0644", how, n)]

\* DownloadFile after c.GET(url) returned: the error, the status check, the
\* write.  The result is the call and the file system.
DownloadStep(v, k, files, how, n) ==
  IF k.err # NoError
  THEN [k |-> [k EXCEPT !.pc = "done"], fs |-> files]
  ELSE IF k.result.StatusCode # StatusOK
  THEN [k |-> [k EXCEPT !.err = StatusError(v, k.result.Status),
                        !.pc = "done"],
        fs |-> files]
  ELSE [k |-> [k EXCEPT !.err = WriteError(how), !.pc = "done",
                        !.found = files[k.filename], !.wrote = how],
        fs |-> WriteFile(files, k.filename, k.result.Body, "0644", how, n)]

\* A call from its first statement to the point where it waits for
\* http.Client (or has returned): these statements touch only its locals.
UpToDispatch(k) ==
  LET b == IF k.pc = "build" THEN BuildStep(k) ELSE k
  IN  IF b.pc = "do" THEN DoSendStep(b) ELSE b

\* ------------------------------------------------------- Client methods

\* A method of client `cl` starts for caller c; `via` names the package-level
\* function it was called through ("" if called on a client directly).
Begin(c, cl, via, k) ==
  /\ Idle(c)
  /\ clients[cl].present
  /\ call' = [call EXCEPT ![c] =
                UpToDispatch([k EXCEPT !.cl = ClientId(cl), !.via = via])]
  /\ UNCHANGED <<variant, phase, DefaultClient, clients, fs>>

\* Client.Do (Client.SendRaw in the older build)
ClientDo(c, cl, via, hr) ==
  Begin(c, cl, via,
        [IdleCall(NoRequest) EXCEPT !.op = "Do", !.pc = "do", !.httpReq = hr])

\* Client.Get
ClientGet(c, cl, via, url) ==
  /\ variant = "current"
  /\ Begin(c, cl, via,
           [IdleCall(NoRequest) EXCEPT !.op = "Get", !.pc = "do", !.url = url])

\* Client.Head
ClientHead(c, cl, via, url) ==
  /\ variant = "current"
  /\ Begin(c, cl, via,
           [IdleCall(NoRequest) EXCEPT !.op = "Head", !.pc = "do", !.url = url])

\* Client.Post
ClientPost(c, cl, via, url, contentType, body) ==
  /\ variant = "current"
  /\ Begin(c, cl, via,
           [IdleCall(NoRequest) EXCEPT !.op = "Post", !.pc = "do", !.url = url,
                                       !.ctype = contentType, !.body = body])

\* Client.PostForm
ClientPostForm(c, cl, via, url, data) ==
  /\ variant = "current"
  /\ Begin(c, cl, via,
           [IdleCall(NoRequest) EXCEPT !.op = "PostForm", !.pc = "do",
                                       !.url = url, !.data = data])

\* Client.CloseIdleConnections
ClientCloseIdleConnections(c, cl, via) ==
  /\ variant = "current"
  /\ Begin(c, cl, via,
           [IdleCall(NoRequest) EXCEPT !.op = "CloseIdleConnections",
                                       !.pc = "do"])

\* Client.GET (Client.Get in the older build): req := NewRequest(GET, url, nil)
\* and then c.Send(req).
ClientGET(c, cl, via, url) ==
  Begin(c, cl, via,
        [IdleCall(NewRequest(MethodGet, url, <<>>)) EXCEPT
           !.op = "GET", !.pc = "build", !.url = url])

\* A POST that does not set the Content-Type header.
ClientPOSTNoContentType(c, cl, via, url, contentType, body) ==
  Begin(c, cl, via,
        [IdleCall(NewRequest(MethodPost, url, body))
           EXCEPT !.op = "POST", !.pc = "build", !.url = url,
                  !.ctype = contentType, !.body = body])

\* Client.POST (Client.Post in the older build): req := NewRequest(POST, url,
\* body); req.Header.Set("Content-Type", contentType); c.Send(req).
ClientPOST(c, cl, via, url, contentType, body) ==
  LET req == NewRequest(MethodPost, url, body)
  IN  Begin(c, cl, via,
            [IdleCall([req EXCEPT !.Header =
                         HeaderSet(req.Header, "Content-Type", contentType)])
               EXCEPT !.op = "POST", !.pc = "build", !.url = url,
                      !.ctype = contentType, !.body = body])

\* Client.Send(request) on the Request the caller prepared.
ClientSend(c, cl, via) ==
  /\ call[c].req.present
  /\ Begin(c, cl, via,
           [IdleCall(call[c].req) EXCEPT !.op = "Send", !.pc = "build"])

\* Client.DownloadFile(url, filename): starts with c.GET(url).
ClientDownloadFile(c, cl, via, url, filename) ==
  Begin(c, cl, via,
        [IdleCall(NewRequest(MethodGet, url, <<>>)) EXCEPT
           !.op = "DownloadFile", !.pc = "build", !.url = url,
           !.filename = filename])

\* ---------------------------------------------------------------- actions

Rest == <<variant, phase, DefaultClient, clients, fs>>

\* A Do whose response lands in a place all calls on the client share:
\* every call that waits takes it.
DoReturnSharedResponse(c, out) ==
  /\ phase = "run"
  /\ call[c].pc = "wire"
  /\ call' = [d \in Callers |->
                IF call[d].pc = "wire"
                THEN DoReturnStep(variant, call[d], out) ELSE call[d]]
  /\ UNCHANGED Rest

DoReturn(c, out) ==
  /\ phase = "run"
  /\ call[c].pc = "wire"
  /\ call' = [call EXCEPT ![c] = DoReturnStep(variant, call[c], out)]
  /\ UNCHANGED Rest

ReadBody(c, ok, n) ==
  /\ phase = "run"
  /\ call[c].pc = "read"
  /\ n \in 0..Len(call[c].stream.data)
  /\ ok => n = Len(call[c].stream.data)
  /\ call' = [call EXCEPT ![c] = ReadStep(variant, call[c], ok, n)]
  /\ UNCHANGED Rest

RunDeferred(c) ==
  /\ phase = "run"
  /\ call[c].pc = "defer"
  /\ call' = [call EXCEPT ![c] = DeferStep(call[c])]
  /\ UNCHANGED Rest

WriteOutcomes == {"ok", "open", "short"}

Download(c, how, n) ==
  /\ phase = "run"
  /\ call[c].pc = "dl"
  /\ n \in 0..Len(call[c].result.Body)
  /\ how = "short" => n < Len(call[c].result.Body)
  /\ how # "short" => n = 0
  /\ LET d == DownloadStep(variant, call[c], fs, how, n)
     IN  /\ call' = [call EXCEPT ![c] = d.k]
         /\ fs' = d.fs
  /\ UNCHANGED <<variant, phase, DefaultClient, clients>>

\* The call has returned and the caller goes on.
Return(c) ==
  /\ phase = "run"
  /\ call[c].pc = "done"
  /\ call' = [call EXCEPT ![c] = IdleCall(NoRequest)]
  /\ UNCHANGED Rest

\* ------------------------------------------------- package-level functions

\* The methods of Client.
ClientMethods ==
  {"Do", "Get", "Head", "Post", "PostForm", "CloseIdleConnections",
   "GET", "POST", "Send", "DownloadFile"}

\* The functions of the package that call a method of DefaultClient.
PackageFunctions ==
  {"Do", "Get", "Head", "Post", "PostForm", "GET", "POST", "Send",
   "DownloadFile"}

\* Do (SendRaw in the older build)
PkgDo(c, hr) == ClientDo(c, DefaultClient.id, "Do", hr)

PkgGet(c, url) == ClientGet(c, DefaultClient.id, "Get", url)

\* A package-level Head copied from Get with the method call left.
PkgHeadCallsGet(c, url) == ClientGet(c, DefaultClient.id, "Head", url)

PkgHead(c, url) == ClientHead(c, DefaultClient.id, "Head", url)

PkgPost(c, url, contentType, body) ==
  ClientPost(c, DefaultClient.id, "Post", url, contentType, body)

PkgPostForm(c, url, data) ==
  ClientPostForm(c, DefaultClient.id, "PostForm", url, data)

\* GET (Get in the older build)
PkgGET(c, url) == ClientGET(c, DefaultClient.id, "GET", url)

\* POST (Post in the older build)
PkgPOST(c, url, contentType, body) ==
  ClientPOST(c, DefaultClient.id, "POST", url, contentType, body)

PkgSend(c) == ClientSend(c, DefaultClient.id, "Send")

PkgDownloadFile(c, url, filename) ==
  ClientDownloadFile(c, DefaultClient.id, "DownloadFile", url, filename)

\* ------------------------------------------------------------ specification

CallerStep(c) ==
  \/ CallNewClient(c)
  \/ \E cfg \in Configs : CallNewClientWithConfig(c, cfg)
  \/ \E a \in NewRequestArgs : CallNewRequest(c, a[1], a[2], a[3])
  \/ \E r \in DirectRequests : CallRequestLit(c, r)
  \/ \E p \in Params \ {NilMap} : CallSetParam(c, p)
  \/ CallSetContentTypeJSON(c)
  \/ \E v \in ContentTypes : CallSetContentType(c, v)
  \/ \E v \in AuthValues : CallSetAuthorization(c, v)
  \/ \E cl \in ClientIds, hr \in HTTPRequests : ClientDo(c, cl, "", hr)
  \/ \E cl \in ClientIds, u \in BaseURLs : ClientGet(c, cl, "", u)
  \/ \E cl \in ClientIds, u \in BaseURLs : ClientHead(c, cl, "", u)
  \/ \E cl \in ClientIds, u \in BaseURLs, v \in ContentTypes, b \in ReqBodies :
       ClientPost(c, cl, "", u, v, b)
  \/ \E cl \in ClientIds, u \in BaseURLs, p \in Params :
       ClientPostForm(c, cl, "", u, p)
  \/ \E cl \in ClientIds : ClientCloseIdleConnections(c, cl, "")
  \/ \E cl \in ClientIds, u \in BaseURLs : ClientGET(c, cl, "", u)
  \/ \E cl \in ClientIds, u \in BaseURLs, v \in ContentTypes, b \in ReqBodies :
       ClientPOST(c, cl, "", u, v, b)
  \/ \E cl \in ClientIds : ClientSend(c, cl, "")
  \/ \E cl \in ClientIds, u \in BaseURLs, f \in Paths :
       ClientDownloadFile(c, cl, "", u, f)
  \/ \E hr \in HTTPRequests : PkgDo(c, hr)
  \/ \E u \in BaseURLs : PkgGet(c, u)
  \/ \E u \in BaseURLs : PkgHead(c, u)
  \/ \E u \in BaseURLs, v \in ContentTypes, b \in ReqBodies : PkgPost(c, u, v, b)
  \/ \E u \in BaseURLs, p \in Params : PkgPostForm(c, u, p)
  \/ \E u \in BaseURLs : PkgGET(c, u)
  \/ \E u \in BaseURLs, v \in ContentTypes, b \in ReqBodies : PkgPOST(c, u, v, b)
  \/ PkgSend(c)
  \/ \E u \in BaseURLs, f \in Paths : PkgDownloadFile(c, u, f)
  \/ \E out \in DispatchOutcomes : DoReturn(c, out)
  \/ \E ok \in BOOLEAN, n \in 0..MaxBodyLen : ReadBody(c, ok, n)
  \/ RunDeferred(c)
  \/ \E how \in WriteOutcomes, n \in 0..MaxBodyLen : Download(c, how, n)
  \/ Return(c)

Next == PackageInit \/ \E c \in Serial : CallerStep(c)

Spec == Init /\ [][Next]_vars

\* The constructors on their own: a caller holds a configuration, the
\* package is initialised, and the caller builds a client from what it holds.
InitConfig ==
  /\ variant \in Variants
  /\ phase = "load"
  /\ DefaultClient = NoClientId
  /\ clients = [id \in ClientIds |-> NoClient]
  /\ fs \in [Paths -> {NoFile, OldFile}]
  /\ \E cfg \in ClientConfigs :
       call = [c \in Callers |->
                 IF c \in Serial
                 THEN [IdleCall(NoRequest) EXCEPT !.cfg = ConfigAt(cfg)]
                 ELSE IdleCall(NoRequest)]

NextConfig ==
  \/ PackageInit
  \/ \E c \in Serial :
       /\ call[c].cfg.present
       /\ ~clients["c1"].present
       /\ CallNewClientWithConfig(c, call[c].cfg.v)

SpecConfig == InitConfig /\ [][NextConfig]_vars

\* Callers that run concurrently on the one client of the package, each
\* with its own URL: the server at a URL answers with its own body.
URLOf(c) == IF c = "u1" THEN <<"h">> ELSE <<"h", "?", "q">>
ServerBody(url) == IF url = <<"h">> THEN <<"a">> ELSE <<"a", "a">>

\* What http.Client returns for the request of a call: the answer of the
\* server the request went to, or an error.
ConcurrentOutcomes(k) ==
  {out \in DispatchOutcomes :
     out.kind = "resp"
       => /\ out.data = ServerBody(k.httpReq.URL)
          /\ out.code \in {200, 500}
          /\ out.header = MakeMap}

ConcurrentStep(c) ==
  \/ CallNewRequest(c, MethodGet, URLOf(c), <<>>)
  \/ ClientSend(c, "c0", "")
  \/ ClientGET(c, "c0", "", URLOf(c))
  \/ \E v \in ContentTypes : ClientPOST(c, "c0", "", URLOf(c), v, <<"a">>)
  \/ \E f \in Paths : ClientDownloadFile(c, "c0", "", URLOf(c), f)
  \/ \E out \in ConcurrentOutcomes(call[c]) : DoReturn(c, out)
  \/ \E ok \in BOOLEAN, n \in 0..MaxBodyLen : ReadBody(c, ok, n)
  \/ RunDeferred(c)
  \/ \E how \in WriteOutcomes, n \in 0..MaxBodyLen : Download(c, how, n)
  \/ Return(c)

NextConcurrent == PackageInit \/ \E c \in Callers : ConcurrentStep(c)

SpecConcurrent == Init /\ [][NextConcurrent]_vars

\* Requests on their own: one caller makes its Request with NewRequest,
\* the other writes a struct literal, and both call the setters.
UsesNewRequest == "u1"
UsesLiteral == "u2"

RequestStep(c) ==
  \/ /\ c = UsesNewRequest
     /\ ~call[c].req.present
     /\ \E a \in NewRequestArgs : CallNewRequest(c, a[1], a[2], a[3])
  \/ /\ c = UsesLiteral
     /\ ~call[c].req.present
     /\ \E r \in DirectRequests : CallRequestLit(c, r)
  \/ CallSetContentTypeJSON(c)
  \/ \E v \in ContentTypes : CallSetContentType(c, v)
  \/ \E v \in AuthValues : CallSetAuthorization(c, v)

NextRequest == PackageInit \/ \E c \in Callers : RequestStep(c)

SpecRequest == Init /\ [][NextRequest]_vars

\* ------------------------------------------------------------------ claims

\* A call whose Send has returned to its caller.
SendReturned(k) == k.op \in ShapedOps /\ k.pc \in {"dl", "done"}

\* A call that holds what Send returned: GET, POST and Send return it,
\* DownloadFile is about to look at it.
HoldsSendResult(k) ==
  \/ k.op \in {"Send", "GET", "POST"} /\ k.pc = "done"
  \/ k.op = "DownloadFile" /\ k.pc = "dl"

\* C1: in the current build, whenever Send has returned and its dispatch
\* handed it a protocol response, that response's body stream is closed and
\* Send itself called Close on it: with the response came an error, or the
\* read of the body failed, or it succeeded.
C1_BodyClosedOnReturn ==
  \A c \in Callers :
    LET k == call[c]
    IN  (variant = "current" /\ SendReturned(k) /\ k.resp.present)
          => (StreamClosed(k.stream) /\ k.stream.closes >= 1)

\* C1 witness: Send of the current build returned after a failed body read,
\* the stream closed.
C1_Witness ==
  \E c \in Callers :
    /\ variant = "current"
    /\ call[c].op = "Send"
    /\ call[c].pc = "done"
    /\ call[c].resp.present
    /\ call[c].stream.ended = "err"
    /\ call[c].stream.closes = 1

\* C2: when Send, GET or POST has returned after a dispatch that gave a
\* response and a read that reached the end of the body, it returns a
\* Response and no error, and the Response's StatusCode, Status, Body and
\* Headers are the protocol response's, whatever the status code; and an
\* error it returns is a build, transport or read error, never one made of
\* the status code.
C2_ResponseForEveryStatus ==
  \A c \in Callers :
    LET k == call[c]
    IN  (k.op \in {"Send", "GET", "POST"} /\ k.pc = "done")
          => /\ (k.resp.present /\ k.stream.ended = "eof")
                  => /\ k.err = NoError
                     /\ k.result.present
                     /\ k.result.StatusCode = k.resp.StatusCode
                     /\ k.result.Status = k.resp.Status
                     /\ k.result.Body = k.stream.data
                     /\ k.result.Headers = k.resp.Header
             /\ k.err.kind \in {"none", "build", "transport", "read"}
             /\ (k.resp.present /\ k.err.kind = "none")
                  => k.stream.ended = "eof"

\* C2 witness: POST returned the Response of a 500 with a body and headers.
C2_Witness ==
  \E c \in Callers :
    /\ call[c].op = "POST"
    /\ call[c].pc = "done"
    /\ call[c].result.present
    /\ call[c].result.StatusCode = 500
    /\ call[c].result.Body = <<"a", "a">>
    /\ MapLen(call[c].result.Headers) = 1
    /\ call[c].err = NoError

\* C3: when building the protocol request of a Request fails, the call has
\* returned from Send with that error and no Response, nothing was handed to
\* http.Client and no request was dispatched; so a call that dispatched was
\* given a Request that builds.
C3_BuildErrorSendsNothing ==
  \A c \in Callers :
    LET k == call[c]
    IN  (k.op \in ShapedOps /\ k.req.present)
          => IF buildRequest(k.req).err # NoError
             THEN /\ SendReturned(k)
                  /\ k.err = buildRequest(k.req).err
                  /\ k.err.kind = "build"
                  /\ ~k.result.present
                  /\ k.dispatches = 0
                  /\ k.invoked = ""
                  /\ ~k.httpReq.present
                  /\ ~k.resp.present
             ELSE /\ k.pc = "wire"
                  /\ k.dispatches = 1

\* C3 witness: Send returned the build error of a Request with a malformed
\* method.
C3_Witness ==
  \E c \in Callers :
    /\ call[c].op = "Send"
    /\ call[c].pc = "done"
    /\ call[c].req.present
    /\ ~ValidMethod(call[c].req.Method)
    /\ call[c].req.Method # <<>>
    /\ call[c].err.kind = "build"

\* C4: when Send has returned it has returned a Response or an error and not
\* both; after a failed dispatch the error is the transport's and the body
\* was never read; after a failed read the error is the read error.
C4_ResponseXorError ==
  \A c \in Callers :
    LET k == call[c]
    IN  HoldsSendResult(k)
          => /\ k.result.present <=> k.err = NoError
             /\ k.err.kind = "transport"
                  => (~k.result.present /\ k.stream.pos = 0
                        /\ k.stream.ended = "no")
             /\ k.stream.ended = "err"
                  => (k.err.kind = "read" /\ ~k.result.present)
             /\ k.stream.ended = "eof" => k.result.present

\* C4 witness: Send returned the read error and no Response after it had
\* read part of the body.
C4_Witness ==
  \E c \in Callers :
    /\ call[c].op = "Send"
    /\ call[c].pc = "done"
    /\ call[c].stream.ended = "err"
    /\ call[c].stream.pos = 1
    /\ call[c].err.kind = "read"
    /\ ~call[c].result.present

\* C5: when DownloadFile has returned after a write that succeeded, which is
\* the write it makes whenever its GET returned a Response with status code
\* 200, it returns no error and the destination file exists and holds exactly
\* the bytes of the response body, whether it found no file there or a file
\* with other contents.
C5_DownloadWritesBody ==
  \A c \in Callers :
    LET k == call[c]
    IN  (k.op = "DownloadFile" /\ k.pc = "done")
          => /\ (k.result.present /\ k.result.StatusCode = 200) => k.wrote # ""
             /\ k.wrote = "ok"
                  => /\ k.err = NoError
                     /\ k.result.StatusCode = 200
                     /\ fs[k.filename].exists
                     /\ fs[k.filename].data = k.result.Body

\* C5 witness: DownloadFile returned after it replaced a longer file by the
\* one byte of the body.
C5_Witness ==
  \E c \in Callers :
    /\ call[c].op = "DownloadFile"
    /\ call[c].pc = "done"
    /\ call[c].wrote = "ok"
    /\ call[c].found = OldFile
    /\ call[c].result.Body = <<"a">>
    /\ fs[call[c].filename].data = <<"a">>

\* What C6 says of a DownloadFile that has returned.
C6_Returned ==
  \A c \in Callers :
    LET k == call[c]
    IN  (k.op = "DownloadFile" /\ k.pc = "done"
           /\ (~k.result.present \/ k.result.StatusCode # 200))
          => /\ k.err # NoError
             /\ k.wrote = ""
             /\ k.result.present
                  => /\ k.err.kind = "status"
                     /\ \E i \in 1..Len(k.err.msg) :
                          k.err.msg[i] = k.result.Status
             /\ ~k.result.present
                  => k.err.kind \in {"build", "transport", "read"}

\* What C6 says of the steps of a DownloadFile: one that makes no write
\* leaves every file as it is.
C6_StepKeepsFiles ==
  \A c \in Callers :
    (call'[c].op = "DownloadFile" /\ call'[c] # call[c]
       /\ call'[c].wrote = "")
      => fs' = fs

\* C6: when the GET of DownloadFile failed, or gave a status code other than
\* 200 (201, 204 and 206 too), DownloadFile returns an error, which carries
\* the status text when there was a status, it has made no write, and no
\* step of the call has changed a file.
C6_NoWriteUnless200 == [](C6_Returned) /\ [][C6_StepKeepsFiles]_vars

\* C6 witness: DownloadFile returned the status error of a 206 and the file
\* it would have replaced is still there.
C6_Witness ==
  \E c \in Callers :
    /\ call[c].op = "DownloadFile"
    /\ call[c].pc = "done"
    /\ call[c].result.StatusCode = 206
    /\ call[c].err.kind = "status"
    /\ call[c].wrote = ""
    /\ fs[call[c].filename] = OldFile

\* r2 is r with the header `name` set to the one value v: the header
\* collection is present, the name holds exactly v, every other header and
\* every other field is as it was.
HeaderIsSet(r, r2, name, v) ==
  /\ ~r2.Header.nil
  /\ DOMAIN r2.Header.m = DOMAIN r.Header.m \cup {name}
  /\ r2.Header.m[name] = <<v>>
  /\ HeaderGet(r2.Header, name) = v
  /\ \A k \in DOMAIN r.Header.m \ {name} : r2.Header.m[k] = r.Header.m[k]
  /\ r2 = [r EXCEPT !.Header = r2.Header]

\* C7: on every Request a caller holds, with its header collection present
\* or absent and whatever the header held before, SetContentTypeJSON,
\* SetContentType(v) and SetAuthorization(v) leave the collection present
\* and the named header with exactly one value, the one given.
C7_SettersSetOneValue ==
  \A c \in Callers :
    LET r == call[c].req
    IN  (call[c].pc = "idle" /\ r.present)
          => /\ HeaderIsSet(r, SetContentTypeJSON(r), "Content-Type",
                            "application/json")
             /\ \A v \in ContentTypes \cup {"x", ""} :
                  HeaderIsSet(r, SetContentType(r, v), "Content-Type", v)
             /\ \A v \in AuthValues \cup {""} :
                  HeaderIsSet(r, SetAuthorization(r, v), "Authorization", v)

\* C7 witness: a Request built without NewRequest, after the setters acted
\* on it, holds the JSON content type and the authorization, one value each.
C7_Witness ==
  \E c \in Callers :
    LET r == call[c].req
    IN  /\ call[c].pc = "idle"
        /\ r.present
        /\ r.Param.nil
        /\ ~r.Header.nil
        /\ DOMAIN r.Header.m = {"Content-Type", "Authorization"}
        /\ r.Header.m["Content-Type"] = <<"application/json">>
        /\ r.Header.m["Authorization"] = <<"tok">>

\* The query strings of three parameter collections, written out.
QueryAB == <<"a", "=", "1", "&", "b", "=", "2">>
QueryMulti ==
  <<"a", "+", "=", "3", "&", "b", "=", "2", "&", "b", "=", "%", "2", "6", "1">>

\* C8: the URL of the protocol request a call dispatched is the Request's
\* BaseURL when the Request has no parameters, and BaseURL, "?" and the
\* key-sorted encoding of the parameters when it has; the "?" is added to a
\* BaseURL that holds one already; {a: 1, b: 2} on "h" gives h?a=1&b=2.
C8_RequestURL ==
  \A c \in Callers :
    LET k == call[c]
        r == k.req
    IN  (k.op \in ShapedOps /\ k.pc = "wire")
          => /\ k.httpReq.present
             /\ MapLen(r.Param) = 0 => k.httpReq.URL = r.BaseURL
             /\ MapLen(r.Param) # 0
                  => k.httpReq.URL = r.BaseURL \o <<"?">> \o Encode(r.Param)
             /\ r.Param = ParamAB
                  => k.httpReq.URL = r.BaseURL \o <<"?">> \o QueryAB
             /\ r.Param = ParamMulti
                  => k.httpReq.URL = r.BaseURL \o <<"?">> \o QueryMulti
             /\ r.Param = ParamNoValues
                  => k.httpReq.URL = r.BaseURL \o <<"?">>

\* C8 witness: a dispatched request whose URL holds the "?" of the base URL
\* and the "?" added before the parameters.
C8_Witness ==
  \E c \in Callers :
    /\ call[c].op = "Send"
    /\ call[c].pc = "wire"
    /\ call[c].req.BaseURL = <<"h", "?", "q">>
    /\ call[c].req.Param = ParamAB
    /\ call[c].httpReq.URL = <<"h", "?", "q", "?">> \o QueryAB

\* A call of GET or POST seen as the call of Send it makes.
AsSend(k) ==
  [k EXCEPT !.op = "Send", !.url = <<>>, !.ctype = "", !.body = <<>>]

\* The call Send(r) on the same client, up to where it waits or returns.
SendOf(k, r) ==
  UpToDispatch([IdleCall(r) EXCEPT !.op = "Send", !.pc = "build",
                                   !.cl = k.cl, !.via = k.via])

\* The Request C9 names for a call of GET or POST with its arguments.
RequestOf(k) ==
  IF k.op = "GET" THEN NewRequest(MethodGet, k.url, <<>>)
  ELSE SetContentType(NewRequest(MethodPost, k.url, k.body), k.ctype)

\* C9: a call of GET(url) or POST(url, contentType, body) is, step for step,
\* the call of Send on NewRequest(GET, url, nil), on NewRequest(POST, url,
\* body) with Content-Type set to contentType: after its first statements
\* it is where that Send is (the same protocol request dispatched, or the
\* same build error returned), and each later step, on any outcome of the
\* dispatch and of the read, takes it where it takes that Send.
C9_VerbsAreSend ==
  \A c \in Callers :
    LET k == call[c]
    IN  k.op \in {"GET", "POST"}
          => /\ k.req.present
                  => /\ AsSend(k) = SendOf(k, RequestOf(k))
                     /\ k.pc = "wire"
                          => k.httpReq = buildRequest(RequestOf(k)).r
                     /\ k.pc # "wire"
                          => (k.pc = "done"
                                /\ k.err = buildRequest(RequestOf(k)).err)
             /\ k.pc = "wire"
                  => \A out \in DispatchOutcomes :
                       AsSend(DoReturnStep(variant, k, out))
                         = DoReturnStep(variant, AsSend(k), out)
             /\ k.pc = "read"
                  => \A ok \in BOOLEAN, n \in 0..Len(k.stream.data) :
                       AsSend(ReadStep(variant, k, ok, n))
                         = ReadStep(variant, AsSend(k), ok, n)
             /\ k.pc = "defer" => AsSend(DeferStep(k)) = DeferStep(AsSend(k))

\* C9 witness: a POST has dispatched the POST request with its body and
\* its content type.
C9_Witness ==
  \E c \in Callers :
    /\ call[c].op = "POST"
    /\ call[c].pc = "wire"
    /\ call[c].httpReq.Method = MethodPost
    /\ call[c].httpReq.Body = <<"a">>
    /\ call[c].httpReq.Header = MapOf([h \in {"Content-Type"} |-> <<"text/plain">>])

\* What C10 says of a call made through a package-level function: it runs
\* the method of that name, on the client DefaultClient holds, and from
\* there on is the call of that method on that client.
RunsOnDefaultClient(k) ==
  k.via # ""
    => /\ k.via \in PackageFunctions
       /\ k.op = k.via
       /\ DefaultClient.present
       /\ k.cl = DefaultClient
       /\ clients[k.cl.id].present
       /\ k.pc = "wire"
            => \A out \in DispatchOutcomes :
                 DoReturnStep(variant, [k EXCEPT !.via = ""], out)
                   = DoReturnStep(variant, k, out)

\* C10 as stated: every method of Client that a call runs has a
\* package-level function, and a call through one runs on DefaultClient.
C10_Original ==
  \A c \in Callers :
    call[c].pc # "idle"
      => (call[c].op \in PackageFunctions /\ RunsOnDefaultClient(call[c]))

\* C10, amended: every method of Client but CloseIdleConnections has a
\* package-level function, and a call through one runs that method on the
\* one client DefaultClient holds; CloseIdleConnections is only ever called
\* on a client.
C10_PackageFunctionsUseDefaultClient ==
  /\ PackageFunctions = ClientMethods \ {"CloseIdleConnections"}
  /\ \A c \in Callers :
       call[c].pc # "idle"
         => /\ call[c].op \in ClientMethods
            /\ RunsOnDefaultClient(call[c])
            /\ call[c].op = "CloseIdleConnections" => call[c].via = ""

\* C10 witness: a call through the package-level Head waits for the
\* Head of DefaultClient's http.Client while another client exists.
C10_Witness ==
  \E c \in Callers :
    /\ call[c].via = "Head"
    /\ call[c].op = "Head"
    /\ call[c].pc = "wire"
    /\ call[c].invoked = "Head"
    /\ call[c].cl = DefaultClient
    /\ clients["c1"].present

\* The step that creates the default client: DefaultClient holds none
\* before it and one after it.
CreatesDefaultClient == ~DefaultClient.present /\ DefaultClient'.present

\* C11 as stated, the laziness: the step that creates the default client is
\* the first statement of a call of a default-instance function.
C11_Original ==
  [][CreatesDefaultClient
       => \E c \in Callers : call[c].pc = "idle" /\ call'[c].via # ""]_vars

\* What holds of the default client in every state: no function of the
\* package runs before it exists; once the package is loaded it exists, was
\* built from the default configuration, and is the client of every call
\* made through a default-instance function.
C11_DefaultClientState ==
  /\ ~DefaultClient.present
       => (phase = "load" /\ \A c \in Callers : call[c].pc = "idle")
  /\ phase = "run"
       => /\ DefaultClient.present
          /\ clients[DefaultClient.id]
               = ClientAt(createClient(DefaultClientConfig))
          /\ \A c \in Callers :
               call[c].via # "" => call[c].cl = DefaultClient

\* What holds of every step: the default client is created by the package's
\* initialisation, in a step that starts no call, and once it exists neither
\* the variable nor the client it names changes.
C11_DefaultClientStep ==
  /\ CreatesDefaultClient
       => (phase = "load" /\ \A c \in Callers : call'[c].pc = "idle")
  /\ DefaultClient.present
       => /\ DefaultClient' = DefaultClient
          /\ clients'[DefaultClient.id] = clients[DefaultClient.id]

\* C11, amended: the process-wide default client is created exactly once,
\* when the package is initialised and so before the first use of any
\* default-instance function (not lazily at that use), with the default
\* configuration; the package never assigns DefaultClient again, and every
\* default-instance call uses that same instance.
C11_DefaultClientCreatedAtLoad ==
  [](C11_DefaultClientState) /\ [][C11_DefaultClientStep]_vars

\* C11 witness: a call through the package-level Send waits on the default
\* client, built from the default configuration, while a second client built
\* from another configuration exists.
C11_Witness ==
  /\ phase = "run"
  /\ clients["c1"] = ClientAt(createClient(CustomConfig))
  /\ clients[DefaultClient.id] = ClientAt(createClient(DefaultClientConfig))
  /\ \E c \in Callers :
       /\ call[c].via = "Send"
       /\ call[c].pc = "wire"
       /\ call[c].cl = DefaultClient

\* C12: the client a caller built with NewClientWithConfig from the
\* configuration it holds has that configuration's overall timeout, dial
\* timeout, keep-alive, idle-connection timeout, TLS handshake timeout,
\* expect-continue timeout and number of idle connections, each as given
\* (negative and zero values included), skips certificate verification
\* exactly when SkipTLSVerify is set, and has no setting besides these, so
\* that IncludeRootCA changes nothing.
C12_ClientHasConfig ==
  \A c \in Callers :
    (call[c].cfg.present /\ clients["c1"].present)
      => LET cfg == call[c].cfg.v
             h   == clients["c1"].c.HTTPClient
             t   == h.Transport
         IN  /\ h.Timeout = cfg.Timeout
             /\ t.DialTimeout = cfg.DialTimeout
             /\ t.KeepAlive = cfg.KeepAlive
             /\ t.IdleConnTimeout = cfg.IdleConnTimeout
             /\ t.TLSHandshakeTimeout = cfg.TLSHanshakeTimeout
             /\ t.ExpectContinueTimeout = cfg.ExpectContinueTimeout
             /\ t.MaxIdleConns = cfg.MaxIdleConns
             /\ t.TLSClientConfig.InsecureSkipVerify = cfg.SkipTLSVerify
             /\ DOMAIN clients["c1"].c = {"HTTPClient"}
             /\ DOMAIN h = {"Timeout", "Transport"}
             /\ DOMAIN t = {"DialTimeout", "KeepAlive", "IdleConnTimeout",
                            "TLSHandshakeTimeout", "ExpectContinueTimeout",
                            "MaxIdleConns", "TLSClientConfig"}
             /\ DOMAIN t.TLSClientConfig = {"InsecureSkipVerify"}

\* C12 witness: a client was built from a configuration with a negative
\* overall timeout and IncludeRootCA left unset, and has that timeout.
C12_Witness ==
  \E c \in Callers :
    /\ call[c].cfg.present
    /\ call[c].cfg.v.Timeout = 0 - 1
    /\ ~call[c].cfg.v.IncludeRootCA
    /\ clients["c1"].present
    /\ clients["c1"].c.HTTPClient.Timeout = 0 - 1

\* The settings C13 lists, in seconds and connections.
C13_FixedValues == ClientConfig(30, 10, 30, 90, 10, 1, 100, FALSE, FALSE)

\* C13: DefaultClientConfig() is always the configuration of the fixed
\* values; the client NewClient() returned (the one the package made for
\* DefaultClient) has the settings of these values; and a client a caller
\* built with NewClientWithConfig from that configuration is configured
\* identically to it.
C13_NewClientIsDefault ==
  /\ DefaultClientConfig = C13_FixedValues
  /\ phase = "run"
       => /\ clients["c0"].present
          /\ clients["c0"].c.HTTPClient.Timeout = 30
          /\ clients["c0"].c.HTTPClient.Transport
               = [DialTimeout |-> 10, KeepAlive |-> 30,
                  IdleConnTimeout |-> 90, ExpectContinueTimeout |-> 1,
                  MaxIdleConns |-> 100, TLSHandshakeTimeout |-> 10,
                  TLSClientConfig |-> [InsecureSkipVerify |-> FALSE]]
          /\ \A c \in Callers :
               (call[c].cfg = ConfigAt(C13_FixedValues)
                  /\ clients["c1"].present)
                 => clients["c1"].c = clients["c0"].c

\* C13 witness: the package has made its client with NewClient() and a
\* caller one with NewClientWithConfig(DefaultClientConfig()).
C13_Witness ==
  /\ phase = "run"
  /\ clients["c0"].present
  /\ clients["c1"].present
  /\ \E c \in Callers : call[c].cfg = ConfigAt(DefaultClientConfig)

\* C14: a call of Do (SendRaw in the older build) hands http.Client.Do one
\* of the protocol requests callers give it, as given, once; when it has
\* returned, no Response was shaped, nothing was read from the body stream
\* and the wrapper called no Close and deferred none, so that after a
\* dispatch without error the stream exists and is open.
C14_RawSendLeavesBody ==
  \A c \in Callers :
    LET k == call[c]
    IN  k.op = "Do"
          => /\ k.pc = "wire"
                  => /\ k.httpReq \in HTTPRequests
                     /\ k.invoked = "Do"
                     /\ k.dispatches = 1
             /\ k.pc = "done"
                  => /\ k.result = NoResponse
                     /\ ~k.deferred
                     /\ k.stream.pos = 0
                     /\ k.stream.ended = "no"
                     /\ k.stream.closes = 0
                     /\ ~k.stream.readAfterClose
                     /\ (k.resp.present /\ k.err = NoError)
                          => (k.stream.exists /\ ~StreamClosed(k.stream))

\* C14 witness: Do has returned a response with a body of bytes and no
\* error, and the stream is open and unread.
C14_Witness ==
  \E c \in Callers :
    /\ call[c].op = "Do"
    /\ call[c].pc = "done"
    /\ call[c].resp.present
    /\ call[c].err = NoError
    /\ call[c].stream.exists
    /\ call[c].stream.data = <<"a", "a">>
    /\ call[c].stream.pos = 0
    /\ ~StreamClosed(call[c].stream)

\* What C15 says of every state: a call of Send, GET, POST or DownloadFile
\* has dispatched at most one request, and none when it returned a build
\* error.
C15_AtMostOneDispatch ==
  \A c \in Callers :
    LET k == call[c]
    IN  k.op \in ShapedOps
          => /\ k.dispatches <= 1
             /\ k.pc = "wire" => k.dispatches = 1
             /\ k.err.kind = "build" => k.dispatches = 0

\* What C15 says of every step: a step of a call that has dispatched (it
\* waits for http.Client, reads, runs its deferred Close, or checks the
\* status) dispatches nothing, and when the call holds a transport error, a
\* read error or a status error it goes on with that error to its return.
C15_NoSecondDispatch ==
  \A c \in Callers :
    (call[c].op \in ShapedOps /\ call[c].pc \in {"wire", "read", "defer", "dl"})
      => /\ call'[c].op = call[c].op
         /\ call'[c].dispatches = call[c].dispatches
         /\ call'[c].pc \in {"wire", "read", "defer", "dl", "done"}
         /\ call[c].pc # "wire" => call'[c].pc # "wire"
         /\ call[c].err # NoError => call'[c].err = call[c].err

\* C15: each call of Send, GET, POST or DownloadFile dispatches at most one
\* request: after a transport error, a read error or, for DownloadFile, a
\* status that is not 200, it returns the failure and dispatches nothing
\* more.
C15_NoRetry ==
  [](C15_AtMostOneDispatch) /\ [][C15_NoSecondDispatch]_vars

\* C15 witness: a DownloadFile has returned a status error after its one
\* dispatch.
C15_Witness ==
  \E c \in Callers :
    /\ call[c].op = "DownloadFile"
    /\ call[c].pc = "done"
    /\ call[c].err.kind = "status"
    /\ call[c].dispatches = 1

\* What C16 says of every state of concurrent calls on one client: the
\* request a call dispatched is its own, the stream it obtained carries the
\* answer to that request, the Response it holds has the body of that
\* answer, and when its Send has returned the stream it obtained was closed
\* by that call, once (in the older build: when the read succeeded).
C16_OwnResponse ==
  \A c \in Callers :
    LET k == call[c]
    IN  /\ k.pc = "wire" => k.httpReq.URL = URLOf(c)
        /\ (k.stream.exists /\ ~k.stream.libClosed)
             => k.stream.data = ServerBody(URLOf(c))
        /\ (HoldsSendResult(k) /\ k.err = NoError)
             => /\ k.result.present
                /\ k.result.Body = ServerBody(URLOf(c))
                /\ k.result.StatusCode = k.resp.StatusCode
        /\ (SendReturned(k) /\ k.resp.present
              /\ (variant = "current" \/ k.err = NoError))
             => k.stream.closes = 1

\* What C16 says of every step: no step of a call changes a Client or the
\* DefaultClient variable, and a step of one call changes no local of
\* another.
C16_NoSharedWrite ==
  /\ phase = "run" => (clients' = clients /\ DefaultClient' = DefaultClient)
  /\ \A c \in Callers, d \in Callers :
       (c # d /\ call'[c] # call[c]) => call'[d] = call[d]

BothPresent(r) == ~r.Header.nil /\ ~r.Param.nil

\* C17 as stated: every Request a caller has constructed, whether or not a
\* setter was called on it, has both collections present.
C17_Original ==
  \A c \in Callers : call[c].req.present => BothPresent(call[c].req)

\* What the amended C17 says of every state: the Request of the caller that
\* uses NewRequest has both collections present and the method, URL and
\* body of one of the calls of NewRequest.
C17_NewRequestState ==
  LET r == call[UsesNewRequest].req
  IN  r.present
        => /\ BothPresent(r)
           /\ <<r.Method, r.BaseURL, r.Body>> \in NewRequestArgs

\* What it says of every step: NewRequest returns a Request with both
\* collections present and empty; a setter, on a Request however made,
\* leaves the header collection present and changes nothing but it.
C17_RequestStep ==
  /\ LET r  == call[UsesNewRequest].req
         r2 == call'[UsesNewRequest].req
     IN  (~r.present /\ r2.present)
           => (r2.Header = MakeMap /\ r2.Param = MakeMap)
  /\ \A c \in Callers :
       LET r  == call[c].req
           r2 == call'[c].req
       IN  (r.present /\ r2 # r)
             => /\ r2.present
                /\ ~r2.Header.nil
                /\ r2 = [r EXCEPT !.Header = r2.Header]

\* C17, amended: NewRequest(m, u, b) returns a Request with Method = m,
\* BaseURL = u, Body = b and both collections present and empty, and a
\* Request made by NewRequest has both collections present in every state
\* reached by calling the setters on it.  A Request written as a struct
\* literal may have either collection absent: a setter makes its header
\* collection present and leaves its parameter collection as it is.
C17_NewRequestCollectionsPresent ==
  [](C17_NewRequestState) /\ [][C17_RequestStep]_vars

\* C17 witness: the Request made by NewRequest holds two headers and its
\* empty parameter collection, while the Request written as a literal had
\* its header collection made by a setter and has no parameter collection.
C17_Witness ==
  /\ call[UsesNewRequest].req.present
  /\ DOMAIN call[UsesNewRequest].req.Header.m
       = {"Content-Type", "Authorization"}
  /\ call[UsesNewRequest].req.Param = MakeMap
  /\ call[UsesLiteral].req.present
  /\ call[UsesLiteral].req.Header
       = MapOf([h \in {"Authorization"} |-> <<"tok">>])
  /\ call[UsesLiteral].req.Param.nil

\* The protocol request a call has dispatched carries the body of its
\* Request and its headers: every header the Request holds, with the same
\* values, and its own empty collection when the Request holds none.
CarriesBodyAndHeaders(k) ==
  /\ k.httpReq.present
  /\ k.httpReq.Body = k.req.Body
  /\ \A h \in DOMAIN k.req.Header.m :
       /\ h \in DOMAIN k.httpReq.Header.m
       /\ k.httpReq.Header.m[h] = k.req.Header.m[h]
  /\ MapLen(k.req.Header) = 0 => k.httpReq.Header = MakeMap

\* C18 as stated: the protocol request Send dispatched has the method of
\* its Request, its body and its headers.
C18_Original ==
  \A c \in Callers :
    (call[c].op \in ShapedOps /\ call[c].pc = "wire")
      => /\ call[c].httpReq.Method = call[c].req.Method
         /\ CarriesBodyAndHeaders(call[c])

\* C18, amended: for every Request that builds successfully, the protocol
\* request Send dispatched has the method of the Request, or GET when the
\* Request's method is empty, the body bytes of the Request, and every
\* header the Request holds with the same values; when the Request's header
\* collection is empty or absent it keeps its own empty header collection.
C18_DispatchedRequest ==
  \A c \in Callers :
    (call[c].op \in ShapedOps /\ call[c].pc = "wire")
      => /\ call[c].httpReq.Method
              = (IF call[c].req.Method = <<>> THEN MethodGet
                 ELSE call[c].req.Method)
         /\ CarriesBodyAndHeaders(call[c])

\* C18 witness: Send has dispatched a Request with an empty method and an
\* Authorization header as a GET that carries the header.
C18_Witness ==
  \E c \in Callers :
    /\ call[c].op = "Send"
    /\ call[c].pc = "wire"
    /\ call[c].req.Method = <<>>
    /\ call[c].httpReq.Method = MethodGet
    /\ call[c].httpReq.Header = MapOf([h \in {"Authorization"} |-> <<"tok">>])

ClosesOf(st) == st.closes + (IF st.libClosed THEN 1 ELSE 0)

\* C20 as stated: the stream of an obtained response is closed at most
\* once, the wrapper's Close comes only after the read has ended, and no
\* read is issued after a close.
C20_Original ==
  \A c \in Callers :
    LET st == call[c].stream
    IN  (call[c].op \in ShapedOps /\ st.exists)
          => /\ ClosesOf(st) <= 1
             /\ st.closes > 0 => st.ended # "no"
             /\ ~st.readAfterClose

\* The one path on which the wrapper closes a stream it has not read: the
\* current build, when the dispatch returned a response together with an
\* error and net/http had closed the body already.
ClosedUnread(v, k) ==
  /\ v = "current"
  /\ k.stream.libClosed
  /\ k.stream.ended = "no"
  /\ k.err.kind = "transport"

\* What the amended C20 says of every state.
C20_CloseState ==
  \A c \in Callers :
    LET k  == call[c]
        st == k.stream
    IN  (k.op \in ShapedOps /\ st.exists)
          => /\ st.closes <= 1
             /\ ~st.readAfterClose
             /\ st.ended # "no" => ~st.libClosed
             /\ st.closes > 0 => (st.ended # "no" \/ ClosedUnread(variant, k))
             /\ ClosesOf(st) > 1 => ClosedUnread(variant, k)
             /\ k.result.present
                  => (st.ended = "eof" /\ k.result.Body = st.data)

\* What it says of every step: a read is issued on a stream nobody has
\* closed, and a Close after a read that has ended or on the path above.
C20_CloseStep ==
  \A c \in Callers :
    LET st  == call[c].stream
        st2 == call'[c].stream
    IN  (call[c].op \in ShapedOps /\ st.exists /\ st2.exists)
          => /\ (st.ended = "no" /\ st2.ended # "no") => ~StreamClosed(st)
             /\ st2.closes > st.closes
                  => /\ st2.closes = st.closes + 1
                     /\ st2.ended = st.ended
                     /\ st.ended # "no" \/ ClosedUnread(variant, call[c])

\* C20, amended: in every execution of Send (both builds) the wrapper calls
\* Close on the body stream of an obtained response at most once, a read is
\* never issued on a closed stream, and a Close that follows a read comes
\* after that read has ended, so the Response returned never depends on a
\* closed stream.  In the current build, when the dispatch returns a
\* response together with an error, Send reads nothing and its one Close
\* falls on a stream net/http has closed already: that stream is closed
\* twice and without a read.
C20_CloseAfterRead ==
  [](C20_CloseState) /\ [][C20_CloseStep]_vars

\* C20 witness: in the current build Send has returned the error of a
\* dispatch that came with a response; it read nothing and called Close on
\* the stream net/http had closed.
C20_Witness ==
  /\ variant = "current"
  /\ \E c \in Callers :
       /\ call[c].op = "Send"
       /\ call[c].pc = "done"
       /\ call[c].stream.exists
       /\ call[c].stream.libClosed
       /\ call[c].stream.closes = 1
       /\ call[c].stream.ended = "no"
       /\ call[c].err.kind = "transport"

====
